---- MODULE Spec2Model ----
(***************************************************************************)
(* State-machine model of apppumpsv3.py: the fluid table FLUIDOS, the four *)
(* calculation functions (calcular_perda_carga,                            *)
(* calcular_analise_energetica, gerar_grafico_diametro_custo,              *)
(* gerar_sugestoes), the report builder and the Streamlit script that      *)
(* calls them.                                                             *)
(*                                                                         *)
(* Numbers.  Python floats are modelled as exact signed rationals whose    *)
(* numerator and denominator are arbitrary-size naturals (little-endian    *)
(* sequences of base-1000 digits), so +, -, *, / and the comparisons are   *)
(* exact.  math.pi is its 16-digit decimal value.  math.log10 and the      *)
(* power ** 0.9 are transcendental: they are computed by fixed-point       *)
(* algorithms to about three decimal digits.                               *)
(***************************************************************************)
EXTENDS Integers, Sequences, FiniteSets, TLC

(***************************************************************************)
(* Arbitrary-size naturals                                                 *)
(***************************************************************************)
Base == 1000

RECURSIVE NatOfInt(_)
NatOfInt(k) == IF k = 0 THEN <<>> ELSE <<k % Base>> \o NatOfInt(k \div Base)

RECURSIVE Strip(_)
Strip(a) ==
    IF a = <<>> THEN a
    ELSE IF a[Len(a)] = 0 THEN Strip(SubSeq(a, 1, Len(a) - 1)) ELSE a

Dig(a, i) == IF i >= 1 /\ i <= Len(a) THEN a[i] ELSE 0

RECURSIVE Carry(_, _, _, _)
Carry(cols, i, n, c) ==
    IF i > n THEN NatOfInt(c)
    ELSE LET t == cols[i] + c
         IN <<t % Base>> \o Carry(cols, i + 1, n, t \div Base)

NatAdd(a, b) ==
    LET n == IF Len(a) > Len(b) THEN Len(a) ELSE Len(b)
        cols == [i \in 1..n |-> Dig(a, i) + Dig(b, i)]
    IN Carry(cols, 1, n, 0)

RECURSIVE ColSum(_, _, _, _, _)
ColSum(a, b, i, j, hi) ==
    IF j > hi THEN 0 ELSE a[j] * b[i + 1 - j] + ColSum(a, b, i, j + 1, hi)

NatMul(a, b) ==
    IF a = <<>> \/ b = <<>> THEN <<>>
    ELSE LET m == Len(a)
             n == Len(b)
             cols == [i \in 1..(m + n - 1) |->
                        ColSum(a, b, i, IF i - n + 1 > 1 THEN i - n + 1 ELSE 1,
                                        IF i < m THEN i ELSE m)]
         IN Carry(cols, 1, m + n - 1, 0)

RECURSIVE CmpFrom(_, _, _)
CmpFrom(a, b, i) ==
    IF i = 0 THEN 0
    ELSE IF a[i] < b[i] THEN -1
    ELSE IF a[i] > b[i] THEN 1
    ELSE CmpFrom(a, b, i - 1)

NatCmp(a, b) ==
    IF Len(a) < Len(b) THEN -1
    ELSE IF Len(a) > Len(b) THEN 1
    ELSE CmpFrom(a, b, Len(a))

RECURSIVE Borrow(_, _, _, _, _)
Borrow(a, b, i, n, c) ==
    IF i > n THEN <<>>
    ELSE LET t == a[i] - Dig(b, i) - c
         IN IF t < 0 THEN <<t + Base>> \o Borrow(a, b, i + 1, n, 1)
            ELSE <<t>> \o Borrow(a, b, i + 1, n, 0)

\* a - b for a >= b
NatSub(a, b) == Strip(Borrow(a, b, 1, Len(a), 0))

\* common factors of Base are dropped, which keeps decimal fractions short
RECURSIVE Reduce(_, _)
Reduce(n, d) ==
    IF n # <<>> /\ Len(d) > 1 /\ n[1] = 0 /\ d[1] = 0
    THEN Reduce(Tail(n), Tail(d))
    ELSE <<n, d>>

(***************************************************************************)
(* Exact rationals: [s |-> sign, n |-> numerator, d |-> denominator]       *)
(***************************************************************************)
Zero == [s |-> 0, n |-> <<>>, d |-> <<1>>]

Mk(s, n, d) ==
    IF n = <<>> THEN Zero
    ELSE LET r == Reduce(n, d) IN [s |-> s, n |-> r[1], d |-> r[2]]

\* the number k / q for machine integers k and q > 0
Rat(k, q) ==
    IF k = 0 THEN Zero
    ELSE IF k < 0 THEN Mk(-1, NatOfInt(-k), NatOfInt(q))
    ELSE Mk(1, NatOfInt(k), NatOfInt(q))

RMul(a, b) ==
    IF a.s = 0 \/ b.s = 0 THEN Zero
    ELSE Mk(a.s * b.s, NatMul(a.n, b.n), NatMul(a.d, b.d))

\* a / b for b # 0
RDiv(a, b) ==
    IF a.s = 0 THEN Zero
    ELSE Mk(a.s * b.s, NatMul(a.n, b.d), NatMul(a.d, b.n))

RAdd(a, b) ==
    IF a.s = 0 THEN b
    ELSE IF b.s = 0 THEN a
    ELSE LET x == NatMul(a.n, b.d)
             y == NatMul(b.n, a.d)
             dd == NatMul(a.d, b.d)
             c == NatCmp(x, y)
         IN IF a.s = b.s THEN Mk(a.s, NatAdd(x, y), dd)
            ELSE IF c = 0 THEN Zero
            ELSE IF c > 0 THEN Mk(a.s, NatSub(x, y), dd)
            ELSE Mk(b.s, NatSub(y, x), dd)

\* -1, 0 or 1 as a < b, a = b or a > b
RCmp(a, b) ==
    IF a.s # b.s THEN (IF a.s < b.s THEN -1 ELSE 1)
    ELSE IF a.s = 0 THEN 0
    ELSE a.s * NatCmp(NatMul(a.n, b.d), NatMul(b.n, a.d))

RLt(a, b) == RCmp(a, b) < 0
RLe(a, b) == RCmp(a, b) <= 0
RGt(a, b) == RCmp(a, b) > 0
RGe(a, b) == RCmp(a, b) >= 0
REq(a, b) == RCmp(a, b) = 0

\* math.pi = 3.141592653589793
Pi == Mk(1, <<793, 589, 653, 592, 141, 3>>, <<0, 0, 0, 0, 0, 1>>)

(***************************************************************************)
(* math.log10 and ** 0.9, to about three decimal digits                    *)
(***************************************************************************)
RECURSIVE Bits(_)
Bits(k) == IF k < 2 THEN 0 ELSE 1 + Bits(k \div 2)

RECURSIVE Pow2(_)
Pow2(e) == IF e = 0 THEN 1 ELSE 2 * Pow2(e - 1)

RECURSIVE Pow10Nat(_)
Pow10Nat(q) == IF q = 0 THEN <<1>> ELSE NatMul(<<10>>, Pow10Nat(q - 1))

\* ten more binary digits of log2 of the mantissa m / 2^14 in [1, 2)
RECURSIVE LgFrac(_, _, _)
LgFrac(m, e, i) ==
    IF i = 0 THEN e
    ELSE LET q == (m * m) \div 16384
         IN IF q >= 32768 THEN LgFrac(q \div 2, 2 * e + 1, i - 1)
            ELSE LgFrac(q, 2 * e, i - 1)

\* floor(1024 * log2(k)) for a machine integer k >= 1, up to rounding
Lg2(k) ==
    LET e == Bits(k)
        m == IF e > 14 THEN k \div Pow2(e - 14) ELSE k * Pow2(14 - e)
    IN LgFrac(m, e, 10)

\* the leading digits of a natural and the power of Base they are scaled by
Top(a) == IF Len(a) >= 2 THEN a[Len(a)] * Base + a[Len(a) - 1] ELSE a[1]
TopExp(a) == IF Len(a) >= 2 THEN Len(a) - 2 ELSE 0

\* 1024 * log10(x) for a rational x > 0, rounded down
Log10Fix(x) ==
    ((Lg2(Top(x.n)) - Lg2(Top(x.d))) * 30103) \div 100000
        + 3072 * (TopExp(x.n) - TopExp(x.d))

\* math.log10(x), x > 0
log10(x) == Rat(Log10Fix(x), 1024)

\* 4096 * 10^(1/2), 10^(1/4), ..., 10^(1/1024)
Raiz10 == <<12953, 7284, 5462, 4730, 4402, 4246, 4170, 4133, 4114, 4105>>

\* 4096 * 10^(r/1024) for 0 <= r < 1024
RECURSIVE Exp10Frac(_, _, _)
Exp10Frac(r, i, p) ==
    IF i > 10 THEN p
    ELSE LET w == Pow2(10 - i)
         IN IF r >= w THEN Exp10Frac(r - w, i + 1, (p * Raiz10[i]) \div 4096)
            ELSE Exp10Frac(r, i + 1, p)

\* x ** 0.9 for a rational x > 0: 10^(0.9 * log10(x))
pow09(x) ==
    LET m == (9 * Log10Fix(x)) \div 10
        q == m \div 1024
        p == NatOfInt(Exp10Frac(m % 1024, 1, 4096))
    IN IF q >= 0 THEN Mk(1, NatMul(p, Pow10Nat(q)), NatOfInt(4096))
       ELSE Mk(1, p, NatMul(NatOfInt(4096), Pow10Nat(-q)))

(***************************************************************************)
(* The program                                                             *)
(***************************************************************************)
VARIABLES
    FLUIDOS,    \* the module-level fluid dictionary
    pc,         \* "idle", or "returned" after a call or a script run
    call,       \* the latest call of a calculation function: op, args, ret
    antes,      \* an earlier call kept for comparison, or NoCall
    pagina      \* what the latest run of the Streamlit script rendered

vars == <<FLUIDOS, pc, call, antes, pagina>>

Agua == "Agua a 20C"
Etanol == "Etanol a 20C"
Glicerina == "Glicerina a 20C"
OleoLeve == "Oleo Leve (generico)"

\* the dictionary literal
TabelaFluidos ==
    (Agua :> [rho |-> Rat(9982, 10), nu |-> Rat(1004, 1000000000)])
    @@ (Etanol :> [rho |-> Rat(789, 1), nu |-> Rat(151, 100000000)])
    @@ (Glicerina :> [rho |-> Rat(1261, 1), nu |-> Rat(149, 100000)])
    @@ (OleoLeve :> [rho |-> Rat(880, 1), nu |-> Rat(15, 1000000)])

\* a function's outcome: a returned value, or the exception it raised
Return(v) == [raised |-> "none", value |-> v]
Raise(e) == [raised |-> e, value |-> <<>>]

\* fator_atrito with Reynolds = 4000 counted as turbulent
fator_atrito_ge(reynolds, rugosidade_m, diametro_m) ==
    IF RGe(reynolds, Rat(4000, 1))
    THEN LET arg == RAdd(RDiv(rugosidade_m, RMul(Rat(37, 10), diametro_m)),
                         RDiv(Rat(574, 100), pow09(reynolds)))
         IN Return(RDiv(Rat(25, 100), RMul(log10(arg), log10(arg))))
    ELSE IF RGt(reynolds, Zero) THEN Return(RDiv(Rat(64, 1), reynolds))
    ELSE Return(Zero)

\* lines 32-37: the friction factor by flow regime
fator_atrito(reynolds, rugosidade_m, diametro_m) ==
    IF RGt(reynolds, Rat(4000, 1))
    THEN LET arg == RAdd(RDiv(rugosidade_m, RMul(Rat(37, 10), diametro_m)),
                         RDiv(Rat(574, 100), pow09(reynolds)))
         IN IF arg.s <= 0 THEN Raise("ValueError")
            ELSE LET log_term == log10(arg)
                 IN IF log_term.s = 0 THEN Raise("ZeroDivisionError")
                    ELSE Return(RDiv(Rat(25, 100), RMul(log_term, log_term)))
    ELSE IF RGt(reynolds, Zero) THEN Return(RDiv(Rat(64, 1), reynolds))
    ELSE Return(Zero)

\* lines 38-40: the two losses from the friction factor and the velocity head
perdas_do_fator(fator, carga, comprimento_sobre_diametro, k_total, velocidade) ==
    IF fator.raised # "none" THEN fator
    ELSE Return([principal |->
                    RMul(RMul(fator.value, comprimento_sobre_diametro), carga),
                 localizada |-> RMul(k_total, carga),
                 velocidade |-> velocidade])

\* lines 31-40, once the velocity is known
perdas_da_velocidade(velocidade, diametro_m, rugosidade_m, nu, comprimento_m, k_total) ==
    perdas_do_fator(
        fator_atrito(IF RGt(nu, Zero)
                     THEN RDiv(RMul(velocidade, diametro_m), nu)
                     ELSE Zero,
                     rugosidade_m, diametro_m),
        RDiv(RMul(velocidade, velocidade), RMul(Rat(2, 1), Rat(981, 100))),
        RDiv(comprimento_m, diametro_m), k_total, velocidade)

\* perdas_si with the flow multiplied by the area instead of divided by it
perdas_si_vezes_area(vazao_m3s, diametro_m, rugosidade_m, nu, comprimento_m, k_total) ==
    perdas_da_velocidade(
        RMul(vazao_m3s, RDiv(RMul(Pi, RMul(diametro_m, diametro_m)), Rat(4, 1))),
        diametro_m, rugosidade_m, nu, comprimento_m, k_total)

\* lines 29-40, in SI units
perdas_si(vazao_m3s, diametro_m, rugosidade_m, nu, comprimento_m, k_total) ==
    perdas_da_velocidade(
        RDiv(vazao_m3s, RDiv(RMul(Pi, RMul(diametro_m, diametro_m)), Rat(4, 1))),
        diametro_m, rugosidade_m, nu, comprimento_m, k_total)

\* calcular_perda_carga with the fluid looked up before the diameter is tested
calcular_perda_carga_busca_antes(vazao_m3h, diametro_mm, comprimento_m, rugosidade_mm, k_total, fluido_selecionado) ==
    IF fluido_selecionado \notin DOMAIN FLUIDOS THEN Raise("KeyError")
    ELSE IF RLe(diametro_mm, Zero)
    THEN Return([principal |-> Zero, localizada |-> Zero, velocidade |-> Zero])
    ELSE perdas_si(RDiv(vazao_m3h, Rat(3600, 1)),
                   RDiv(diametro_mm, Rat(1000, 1)),
                   RDiv(rugosidade_mm, Rat(1000, 1)),
                   FLUIDOS[fluido_selecionado].nu,
                   comprimento_m, k_total)

calcular_perda_carga(vazao_m3h, diametro_mm, comprimento_m, rugosidade_mm, k_total, fluido_selecionado) ==
    IF RLe(diametro_mm, Zero)
    THEN Return([principal |-> Zero, localizada |-> Zero, velocidade |-> Zero])
    ELSE IF fluido_selecionado \notin DOMAIN FLUIDOS THEN Raise("KeyError")
    ELSE perdas_si(RDiv(vazao_m3h, Rat(3600, 1)),
                   RDiv(diametro_mm, Rat(1000, 1)),
                   RDiv(rugosidade_mm, Rat(1000, 1)),
                   FLUIDOS[fluido_selecionado].nu,
                   comprimento_m, k_total)

\* analise_da_potencia with the year counted as 365 days instead of 12 months
analise_da_potencia_365(potencia_eletrica_kW, horas_dia, custo_kwh) ==
    Return([potencia_eletrica_kW |-> potencia_eletrica_kW,
            consumo_mensal_kWh |->
                RMul(RMul(potencia_eletrica_kW, horas_dia), Rat(30, 1)),
            custo_anual |->
                RMul(RMul(RMul(potencia_eletrica_kW, horas_dia), Rat(365, 1)),
                     custo_kwh)])

\* lines 48-51, from the electrical power in W
analise_da_potencia(potencia_eletrica_kW, horas_dia, custo_kwh) ==
    Return([potencia_eletrica_kW |-> potencia_eletrica_kW,
            consumo_mensal_kWh |->
                RMul(RMul(potencia_eletrica_kW, horas_dia), Rat(30, 1)),
            custo_anual |->
                RMul(RMul(RMul(RMul(potencia_eletrica_kW, horas_dia), Rat(30, 1)),
                          custo_kwh), Rat(12, 1))])

\* potencia_eletrica with a non-positive pump efficiency taken as no loss
potencia_eletrica_sem_perda(potencia_hidraulica_W, eficiencia_bomba, eficiencia_motor) ==
    IF RGt(eficiencia_motor, Zero)
    THEN RDiv(IF RGt(eficiencia_bomba, Zero)
              THEN RDiv(potencia_hidraulica_W, eficiencia_bomba)
              ELSE potencia_hidraulica_W,
              eficiencia_motor)
    ELSE Zero

\* lines 46-47: the two guarded divisions
potencia_eletrica(potencia_hidraulica_W, eficiencia_bomba, eficiencia_motor) ==
    IF RGt(eficiencia_motor, Zero)
    THEN RDiv(IF RGt(eficiencia_bomba, Zero)
              THEN RDiv(potencia_hidraulica_W, eficiencia_bomba)
              ELSE Zero,
              eficiencia_motor)
    ELSE Zero

\* calcular_analise_energetica with water as the default of the lookup
calcular_analise_energetica_padrao(vazao_m3h, h_man, eficiencia_bomba, eficiencia_motor, horas_dia, custo_kwh, fluido_selecionado) ==
    analise_da_potencia(
        RDiv(potencia_eletrica(
                 RMul(RMul(RMul(RDiv(vazao_m3h, Rat(3600, 1)),
                                IF fluido_selecionado \in DOMAIN FLUIDOS
                                THEN FLUIDOS[fluido_selecionado].rho
                                ELSE FLUIDOS[Agua].rho),
                           Rat(981, 100)), h_man),
                 eficiencia_bomba, eficiencia_motor),
             Rat(1000, 1)),
        horas_dia, custo_kwh)

calcular_analise_energetica(vazao_m3h, h_man, eficiencia_bomba, eficiencia_motor, horas_dia, custo_kwh, fluido_selecionado) ==
    IF fluido_selecionado \notin DOMAIN FLUIDOS THEN Raise("KeyError")
    ELSE analise_da_potencia(
             RDiv(potencia_eletrica(
                      RMul(RMul(RMul(RDiv(vazao_m3h, Rat(3600, 1)),
                                     FLUIDOS[fluido_selecionado].rho),
                                Rat(981, 100)), h_man),
                      eficiencia_bomba, eficiencia_motor),
                  Rat(1000, 1)),
             horas_dia, custo_kwh)

\* np.arange(start, stop, step) for integers and step > 0
arange(start, stop, step) ==
    LET n == IF stop > start THEN (stop - start + step - 1) \div step ELSE 0
    IN [i \in 1..n |-> start + (i - 1) * step]

\* lines 57-61: the loop over faixa_diametros from its i-th element on; calcs
\* counts the calls of the two calculators made so far
RECURSIVE laco_diametros(_, _, _, _, _)
RECURSIVE laco_perdas(_, _, _, _, _, _)
RECURSIVE laco_resultados(_, _, _, _, _, _)

\* line 61 and the next iteration
laco_resultados(resultados_calc, faixa_diametros, i, custos_anuais, calcs, kwargs) ==
    IF resultados_calc.raised # "none"
    THEN [raised |-> resultados_calc.raised, value |-> <<>>, calcs |-> calcs + 2]
    ELSE laco_diametros(faixa_diametros, i + 1,
                        Append(custos_anuais, resultados_calc.value.custo_anual),
                        calcs + 2, kwargs)

\* lines 59-60
laco_perdas(perdas, faixa_diametros, i, custos_anuais, calcs, kwargs) ==
    IF perdas.raised # "none"
    THEN [raised |-> perdas.raised, value |-> <<>>, calcs |-> calcs + 1]
    ELSE laco_resultados(
             calcular_analise_energetica(kwargs.vazao,
                 RAdd(RAdd(kwargs.h_geometrica, perdas.value.principal),
                      perdas.value.localizada),
                 kwargs.rend_bomba, kwargs.rend_motor, kwargs.horas_por_dia,
                 kwargs.tarifa_energia, kwargs.fluido_selecionado),
             faixa_diametros, i, custos_anuais, calcs, kwargs)

\* lines 57-58
laco_diametros(faixa_diametros, i, custos_anuais, calcs, kwargs) ==
    IF i > Len(faixa_diametros)
    THEN [raised |-> "none", value |-> custos_anuais, calcs |-> calcs]
    ELSE laco_perdas(
             calcular_perda_carga(kwargs.vazao, Rat(faixa_diametros[i], 1),
                 kwargs.comp_tub, kwargs.rug_tub, kwargs.k_total_acessorios,
                 kwargs.fluido_selecionado),
             faixa_diametros, i, custos_anuais, calcs, kwargs)

\* line 62: the DataFrame is the sequence of its rows; the empty one is <<>>
DataFrame(faixa_diametros, r) ==
    IF r.raised # "none" THEN r
    ELSE [raised |-> "none",
          value |-> [i \in 1..Len(faixa_diametros) |->
                       [diametro |-> faixa_diametros[i], custo |-> r.value[i]]],
          calcs |-> r.calcs]

\* lines 55-63
grafico_da_faixa(faixa_diametros, kwargs) ==
    DataFrame(faixa_diametros,
              laco_diametros(faixa_diametros, 1, <<>>, 0, kwargs))

\* gerar_grafico_diametro_custo with the range ending at diam_max, exclusive
gerar_grafico_sem_passo(diam_min, diam_max, passo, kwargs) ==
    IF diam_min >= diam_max \/ passo <= 0
    THEN [raised |-> "none", value |-> <<>>, calcs |-> 0]
    ELSE grafico_da_faixa(arange(diam_min, diam_max, passo), kwargs)

\* gerar_grafico_diametro_custo with diam_min = diam_max let through
gerar_grafico_min_igual_max(diam_min, diam_max, passo, kwargs) ==
    IF diam_min > diam_max \/ passo <= 0
    THEN [raised |-> "none", value |-> <<>>, calcs |-> 0]
    ELSE grafico_da_faixa(arange(diam_min, diam_max + passo, passo), kwargs)

gerar_grafico_diametro_custo(diam_min, diam_max, passo, kwargs) ==
    IF diam_min >= diam_max \/ passo <= 0
    THEN [raised |-> "none", value |-> <<>>, calcs |-> 0]
    ELSE grafico_da_faixa(arange(diam_min, diam_max + passo, passo), kwargs)

SugestaoBomba == "Eficiencia da bomba abaixo de 60%"
SugestaoMotor == "Eficiencia do motor abaixo de 85%"
SugestaoInversor == "inversor de frequencia"
SugestaoManutencao == "manutencoes preventivas"

\* gerar_sugestoes with the thresholds themselves triggering
gerar_sugestoes_le(eficiencia_bomba, eficiencia_motor, custo_anual) ==
    LET s1 == IF RLe(eficiencia_bomba, Rat(6, 10)) THEN <<SugestaoBomba>> ELSE <<>>
        s2 == IF RLe(eficiencia_motor, Rat(85, 100))
              THEN Append(s1, SugestaoMotor) ELSE s1
        s3 == IF RGe(custo_anual, Rat(5000, 1))
              THEN Append(s2, SugestaoInversor) ELSE s2
    IN Return(Append(s3, SugestaoManutencao))

gerar_sugestoes(eficiencia_bomba, eficiencia_motor, custo_anual) ==
    LET s1 == IF RLt(eficiencia_bomba, Rat(6, 10)) THEN <<SugestaoBomba>> ELSE <<>>
        s2 == IF RLt(eficiencia_motor, Rat(85, 100))
              THEN Append(s1, SugestaoMotor) ELSE s1
        s3 == IF RGt(custo_anual, Rat(5000, 1))
              THEN Append(s2, SugestaoInversor) ELSE s2
    IN Return(Append(s3, SugestaoManutencao))

\* the report: its pages, each with its chapter titles, and the suggestions
\* written on the first page (the typeset values are left out)
criar_relatorio_pdf(sugestoes, chart_data) ==
    [paginas |->
        <<[orientacao |-> "P",
           capitulos |-> <<"Parametros de Entrada", "Resultados da Analise",
                           "Sugestoes de Melhoria">>]>>
        \o (IF chart_data # <<>>
            THEN <<[orientacao |-> "L",
                    capitulos |-> <<"Grafico de Analise de Custo por Diametro">>]>>
            ELSE <<>>),
     sugestoes |-> sugestoes]

Manual == "Informar manualmente"
Tubulacao == "Calcular a partir da tubulacao"

\* lines 174-193: the suggestions and the report
script_relatorio(w, h_man_total, velocidade_fluido, resultados, chart_data, sugestoes) ==
    [tipo |-> "ok",
     widgets |-> w,
     h_man_total |-> h_man_total,
     velocidade_fluido |-> velocidade_fluido,
     resultados |-> resultados,
     bar_chart |-> w.tipo_calculo_h = Tubulacao /\ chart_data # <<>>,
     warning |-> w.tipo_calculo_h = Tubulacao /\ chart_data = <<>>,
     chart_data |-> chart_data,
     sugestoes |-> sugestoes,
     pdf |-> criar_relatorio_pdf(sugestoes, chart_data)]

\* lines 167-181: the chart or the warning, then the suggestions
script_grafico(w, h_man_total, velocidade_fluido, resultados, grafico) ==
    IF grafico.raised # "none"
    THEN [tipo |-> "erro", widgets |-> w, excecao |-> grafico.raised]
    ELSE script_relatorio(w, h_man_total, velocidade_fluido, resultados,
             grafico.value,
             gerar_sugestoes(Rat(w.rend_bomba, 100), Rat(w.rend_motor, 100),
                             resultados.custo_anual).value)

\* lines 163-170: the energy analysis, then the sweep in pipe mode
script_resultados(w, h_man_total, velocidade_fluido, resultados) ==
    IF resultados.raised # "none"
    THEN [tipo |-> "erro", widgets |-> w, excecao |-> resultados.raised]
    ELSE script_grafico(w, h_man_total, velocidade_fluido, resultados.value,
             IF w.tipo_calculo_h = Tubulacao
             THEN gerar_grafico_diametro_custo(w.diam_min_graf, w.diam_max_graf,
                      w.passo_graf,
                      [vazao |-> w.vazao, h_geometrica |-> w.h_geometrica,
                       comp_tub |-> w.comp_tub, rug_tub |-> w.rug_tub,
                       k_total_acessorios |-> w.k_total_acessorios,
                       rend_bomba |-> Rat(w.rend_bomba, 100),
                       rend_motor |-> Rat(w.rend_motor, 100),
                       horas_por_dia |-> w.horas_por_dia,
                       tarifa_energia |-> w.tarifa_energia,
                       fluido_selecionado |-> w.fluido_selecionado])
             ELSE [raised |-> "none", value |-> <<>>, calcs |-> 0])

\* lines 158-163: the total head, then the energy analysis
script_altura(w, h_man_total, velocidade_fluido) ==
    script_resultados(w, h_man_total, velocidade_fluido,
        calcular_analise_energetica(w.vazao, h_man_total,
            Rat(w.rend_bomba, 100), Rat(w.rend_motor, 100),
            w.horas_por_dia, w.tarifa_energia, w.fluido_selecionado))

\* lines 156-159: the head loss of the pipe the user entered
script_perdas(w, perdas_dict) ==
    IF perdas_dict.raised # "none"
    THEN [tipo |-> "erro", widgets |-> w, excecao |-> perdas_dict.raised]
    ELSE script_altura(w,
             RAdd(w.h_geometrica, RAdd(perdas_dict.value.principal,
                                       perdas_dict.value.localizada)),
             perdas_dict.value.velocidade)

\* lines 151-193: one run of the script on the widget values w; an exception
\* of a calculator ends the run
script(w) ==
    IF w.tipo_calculo_h = Tubulacao
    THEN script_perdas(w,
             calcular_perda_carga(w.vazao, w.diam_tub, w.comp_tub, w.rug_tub,
                                  w.k_total_acessorios, w.fluido_selecionado))
    ELSE script_altura(w, w.h_man_manual, Zero)

NoCall == [op |-> "none", args |-> <<>>, ret |-> <<>>]
NoPage == [tipo |-> "none"]

Init ==
    /\ FLUIDOS = TabelaFluidos
    /\ pc = "idle"
    /\ call = NoCall
    /\ antes = NoCall
    /\ pagina = NoPage

(***************************************************************************)
(* Inputs.  Each action below draws its arguments from an envelope E of    *)
(* finite sets.                                                            *)
(***************************************************************************)
\* the largest diam_max of a sweep is 50 * MaxFaixa
MaxFaixa == 2

\* the flow rate at which Reynolds is exactly 4000 in a 100 mm pipe of light oil
Q4000 == RMul(RMul(Rat(3600000, 1), Pi), RMul(Rat(1, 10), Rat(15, 1000000)))

Desconhecido == "Mercurio"

Entradas ==
    [vazao |-> {Zero, Rat(50, 1), Q4000},
     diam |-> {Rat(-50, 1), Zero, Rat(50, 1), Rat(100, 1), Rat(113, 1)},
     comp |-> {Zero, Rat(100, 1)},
     rug |-> {Zero, Rat(15, 100), Rat(500, 1)},
     k |-> {Zero, Rat(5, 1)},
     fluido |-> DOMAIN TabelaFluidos \cup {Desconhecido},
     h_man |-> {Zero, Rat(30, 1)},
     ef_bomba |-> {Rat(-1, 10), Zero, Rat(5, 10), Rat(6, 10), Rat(7, 10)},
     ef_motor |-> {Zero, Rat(8, 10), Rat(85, 100), Rat(9, 10), Rat(95, 100)},
     horas |-> {Rat(8, 1)},
     tarifa |-> {Rat(75, 100)},
     custo |-> {Rat(499999, 100), Rat(5000, 1), Rat(6000, 1)},
     diam_min |-> {0, 50, 100},
     diam_max |-> {50 * i : i \in 1..MaxFaixa},
     passo |-> {-25, 0, 25, 40},
     g_vazao |-> {Rat(50, 1), Q4000},
     g_fluido |-> {Agua, OleoLeve, Desconhecido},
     g_ef_bomba |-> {Zero, Rat(7, 10)}]

\* the concrete scenarios of the specification's section 8
Cenarios ==
    [vazao |-> {Rat(50, 1)},
     diam |-> {Zero, Rat(100, 1)},
     comp |-> {Rat(100, 1)},
     rug |-> {Rat(15, 100)},
     k |-> {Rat(5, 1)},
     fluido |-> {Agua, Glicerina},
     h_man |-> {Rat(30, 1)},
     ef_bomba |-> {Rat(5, 10), Rat(7, 10)},
     ef_motor |-> {Rat(9, 10), Rat(95, 100)},
     horas |-> {Rat(8, 1)},
     tarifa |-> {Rat(75, 100)},
     custo |-> {Rat(6000, 1)},
     diam_min |-> {50},
     diam_max |-> {50 * i : i \in 1..MaxFaixa},
     passo |-> {25},
     g_vazao |-> {Rat(50, 1)},
     g_fluido |-> {Agua, Glicerina},
     g_ef_bomba |-> {Rat(7, 10)}]

(***************************************************************************)
(* Actions: a call of one of the four functions, a run of the script       *)
(***************************************************************************)
CallPerdaCarga(E) ==
    /\ pc = "idle"
    /\ \E vazao \in E.vazao, diam \in E.diam, comp \in E.comp, rug \in E.rug,
          k \in E.k, fluido \in E.fluido :
        call' = [op |-> "perda_carga",
                 args |-> [vazao_m3h |-> vazao, diametro_mm |-> diam,
                           comprimento_m |-> comp, rugosidade_mm |-> rug,
                           k_total |-> k, fluido_selecionado |-> fluido],
                 ret |-> calcular_perda_carga(vazao, diam, comp, rug, k, fluido)]
    /\ pc' = "returned"
    /\ UNCHANGED <<FLUIDOS, antes, pagina>>

\* CallAnalise with the specific weight rho * 9.81 written back into the table
CallAnaliseGrava(E) ==
    /\ pc = "idle"
    /\ \E vazao \in E.vazao, h_man \in E.h_man, eb \in E.ef_bomba,
          em \in E.ef_motor, horas \in E.horas, tarifa \in E.tarifa,
          fluido \in E.fluido :
        /\ call' = [op |-> "analise_energetica",
                    args |-> [vazao_m3h |-> vazao, h_man |-> h_man,
                              eficiencia_bomba |-> eb, eficiencia_motor |-> em,
                              horas_dia |-> horas, custo_kwh |-> tarifa,
                              fluido_selecionado |-> fluido],
                    ret |-> calcular_analise_energetica(vazao, h_man, eb, em,
                                                        horas, tarifa, fluido)]
        /\ FLUIDOS' = IF fluido \in DOMAIN FLUIDOS
                      THEN [FLUIDOS EXCEPT
                               ![fluido].rho = RMul(@, Rat(981, 100))]
                      ELSE FLUIDOS
    /\ pc' = "returned"
    /\ UNCHANGED <<antes, pagina>>

CallAnalise(E) ==
    /\ pc = "idle"
    /\ \E vazao \in E.vazao, h_man \in E.h_man, eb \in E.ef_bomba,
          em \in E.ef_motor, horas \in E.horas, tarifa \in E.tarifa,
          fluido \in E.fluido :
        call' = [op |-> "analise_energetica",
                 args |-> [vazao_m3h |-> vazao, h_man |-> h_man,
                           eficiencia_bomba |-> eb, eficiencia_motor |-> em,
                           horas_dia |-> horas, custo_kwh |-> tarifa,
                           fluido_selecionado |-> fluido],
                 ret |-> calcular_analise_energetica(vazao, h_man, eb, em, horas,
                                                     tarifa, fluido)]
    /\ pc' = "returned"
    /\ UNCHANGED <<FLUIDOS, antes, pagina>>

CallGrafico(E) ==
    /\ pc = "idle"
    /\ \E diam_min \in E.diam_min, diam_max \in E.diam_max, passo \in E.passo,
          vazao \in E.g_vazao, eb \in E.g_ef_bomba, fluido \in E.g_fluido :
        LET kwargs == [vazao |-> vazao, h_geometrica |-> Rat(15, 1),
                       comp_tub |-> Rat(100, 1), rug_tub |-> Rat(15, 100),
                       k_total_acessorios |-> Rat(5, 1),
                       rend_bomba |-> eb, rend_motor |-> Rat(9, 10),
                       horas_por_dia |-> Rat(8, 1),
                       tarifa_energia |-> Rat(75, 100),
                       fluido_selecionado |-> fluido]
        IN call' = [op |-> "grafico_diametro_custo",
                    args |-> [diam_min |-> diam_min, diam_max |-> diam_max,
                              passo |-> passo, kwargs |-> kwargs],
                    ret |-> gerar_grafico_diametro_custo(diam_min, diam_max,
                                                         passo, kwargs)]
    /\ pc' = "returned"
    /\ UNCHANGED <<FLUIDOS, antes, pagina>>

CallSugestoes(E) ==
    /\ pc = "idle"
    /\ \E eb \in E.ef_bomba, em \in E.ef_motor, custo \in E.custo :
        call' = [op |-> "sugestoes",
                 args |-> [eficiencia_bomba |-> eb, eficiencia_motor |-> em,
                           custo_anual |-> custo],
                 ret |-> gerar_sugestoes(eb, em, custo)]
    /\ pc' = "returned"
    /\ UNCHANGED <<FLUIDOS, antes, pagina>>

\* lines 121-149: the widgets, within the limits the widgets enforce; a widget
\* that is not varied returns its default value
Widgets ==
    {[fluido_selecionado |-> fluido, vazao |-> Rat(50, 1), tipo_calculo_h |-> tipo,
      h_man_manual |-> IF tipo = Manual THEN Rat(30, 1) ELSE Zero,
      diam_tub |-> Rat(100, 1), h_geometrica |-> Rat(15, 1),
      comp_tub |-> Rat(100, 1), rug_tub |-> Rat(15, 100),
      k_total_acessorios |-> Rat(5, 1),
      diam_min_graf |-> IF tipo = Manual THEN 50 ELSE faixa[1],
      diam_max_graf |-> IF tipo = Manual THEN 300 ELSE faixa[2],
      passo_graf |-> 25,
      rend_bomba |-> rb, rend_motor |-> rm,
      horas_por_dia |-> Rat(8, 1), tarifa_energia |-> Rat(75, 100)] :
        fluido \in DOMAIN FLUIDOS, tipo \in {Manual, Tubulacao},
        faixa \in {<<50, 100>>, <<50, 50>>, <<100, 50>>},
        rb \in {50, 60, 70}, rm \in {80, 90}}

Script ==
    /\ pc = "idle"
    /\ \E w \in Widgets : pagina' = script(w)
    /\ pc' = "returned"
    /\ UNCHANGED <<FLUIDOS, call, antes>>

\* the caller drops the result
Retorna ==
    /\ pc = "returned"
    /\ pc' = "idle"
    /\ call' = NoCall
    /\ pagina' = NoPage
    /\ UNCHANGED <<FLUIDOS, antes>>

\* the caller keeps the call and its result for a later comparison
Memoriza ==
    /\ pc = "returned"
    /\ call # NoCall
    /\ antes' = call
    /\ pc' = "idle"
    /\ call' = NoCall
    /\ UNCHANGED <<FLUIDOS, pagina>>

Next ==
    \/ CallPerdaCarga(Entradas)
    \/ CallAnalise(Entradas)
    \/ CallGrafico(Entradas)
    \/ CallSugestoes(Entradas)
    \/ Script
    \/ Retorna

Spec == Init /\ [][Next]_vars

NextMemo ==
    \/ CallPerdaCarga(Cenarios)
    \/ CallAnalise(Cenarios)
    \/ CallGrafico(Cenarios)
    \/ CallSugestoes(Cenarios)
    \/ Retorna
    \/ Memoriza

SpecMemo == Init /\ [][NextMemo]_vars
(***************************************************************************)
(* Properties                                                              *)
(***************************************************************************)
Returned(op) == pc = "returned" /\ call.op = op
Conhecido(fluido) == fluido \in DOMAIN TabelaFluidos

\* the quantities the specification names, from the arguments of a head-loss call
DiametroM(a) == RDiv(a.diametro_mm, Rat(1000, 1))
Velocidade(a) ==
    RDiv(RDiv(a.vazao_m3h, Rat(3600, 1)),
         RDiv(RMul(Pi, RMul(DiametroM(a), DiametroM(a))), Rat(4, 1)))
Reynolds(a) ==
    RDiv(RMul(Velocidade(a), DiametroM(a)), TabelaFluidos[a.fluido_selecionado].nu)
SwameeJain(a) ==
    LET x == RAdd(RDiv(RDiv(a.rugosidade_mm, Rat(1000, 1)),
                       RMul(Rat(37, 10), DiametroM(a))),
                  RDiv(Rat(574, 100), pow09(Reynolds(a))))
    IN RDiv(Rat(1, 4), RMul(log10(x), log10(x)))
FatorEsperado(a) ==
    IF RGt(Reynolds(a), Rat(4000, 1)) THEN SwameeJain(a)
    ELSE IF RGt(Reynolds(a), Zero) THEN RDiv(Rat(64, 1), Reynolds(a))
    ELSE Zero
CargaCinetica(a) == RDiv(RMul(Velocidade(a), Velocidade(a)), Rat(1962, 100))

\* C1: a head-loss call with diameter > 0 and a known fluid returns
\* minorLoss = K_total * v^2 / 19.62 and majorLoss = f * (L/d) * v^2 / 19.62 with
\* v = (flow/3600) / (pi d^2 / 4), Re = v d / nu and f = Swamee-Jain when
\* Re > 4000, 64/Re when 0 < Re <= 4000 and 0 when Re = 0.
C1_PerdaCarga ==
    (/\ Returned("perda_carga")
     /\ RGt(call.args.diametro_mm, Zero)
     /\ Conhecido(call.args.fluido_selecionado)
     /\ RGe(Reynolds(call.args), Zero))
    => /\ call.ret.raised = "none"
       /\ REq(call.ret.value.velocidade, Velocidade(call.args))
       /\ REq(call.ret.value.localizada,
              RMul(call.args.k_total, CargaCinetica(call.args)))
       /\ REq(call.ret.value.principal,
              RMul(RMul(FatorEsperado(call.args),
                        RDiv(call.args.comprimento_m, DiametroM(call.args))),
                   CargaCinetica(call.args)))

\* a head-loss call at Reynolds = 4000 exactly, which took the laminar branch
C1_Witness ==
    /\ Returned("perda_carga")
    /\ RGt(call.args.diametro_mm, Zero)
    /\ Conhecido(call.args.fluido_selecionado)
    /\ REq(Reynolds(call.args), Rat(4000, 1))
    /\ call.ret.raised = "none"
    /\ REq(call.ret.value.principal,
           RMul(RMul(Rat(16, 1000),
                     RDiv(call.args.comprimento_m, DiametroM(call.args))),
                CargaCinetica(call.args)))
    /\ RGt(call.ret.value.principal, Zero)

PotenciaEsperada(a) ==
    RDiv(RDiv(RDiv(RMul(RMul(RMul(RDiv(a.vazao_m3h, Rat(3600, 1)),
                                  TabelaFluidos[a.fluido_selecionado].rho),
                             Rat(981, 100)),
                        a.h_man),
                   a.eficiencia_bomba),
              a.eficiencia_motor),
         Rat(1000, 1))

\* C2: an energy call with both efficiencies > 0 returns electricalPowerKW =
\* ((flow/3600) * rho * 9.81 * totalHead / pumpEfficiency / motorEfficiency) / 1000,
\* monthlyConsumptionKWh = electricalPowerKW * dailyHours * 30 and annualCost =
\* monthlyConsumptionKWh * tariff * 12 = 360 * electricalPowerKW * dailyHours *
\* tariff, with rho the selected fluid's table entry.
C2_CadeiaEnergetica ==
    (/\ Returned("analise_energetica")
     /\ RGt(call.args.eficiencia_bomba, Zero)
     /\ RGt(call.args.eficiencia_motor, Zero)
     /\ Conhecido(call.args.fluido_selecionado))
    => /\ call.ret.raised = "none"
       /\ REq(call.ret.value.potencia_eletrica_kW, PotenciaEsperada(call.args))
       /\ REq(call.ret.value.consumo_mensal_kWh,
              RMul(call.ret.value.potencia_eletrica_kW,
                   RMul(call.args.horas_dia, Rat(30, 1))))
       /\ REq(call.ret.value.custo_anual,
              RMul(call.ret.value.consumo_mensal_kWh,
                   RMul(call.args.custo_kwh, Rat(12, 1))))
       /\ REq(call.ret.value.custo_anual,
              RMul(Rat(360, 1),
                   RMul(call.ret.value.potencia_eletrica_kW,
                        RMul(call.args.horas_dia, call.args.custo_kwh))))

\* the specification's scenario 2 (50 m3/h of water, 30 m, 0.70, 0.90, 8 h, 0.75)
\* has returned a positive annual cost
C2_Witness ==
    /\ Returned("analise_energetica")
    /\ call.args = [vazao_m3h |-> Rat(50, 1), h_man |-> Rat(30, 1),
                    eficiencia_bomba |-> Rat(7, 10), eficiencia_motor |-> Rat(9, 10),
                    horas_dia |-> Rat(8, 1), custo_kwh |-> Rat(75, 100),
                    fluido_selecionado |-> Agua]
    /\ call.ret.raised = "none"
    /\ RGt(call.ret.value.custo_anual, Rat(13000, 1))
    /\ RLt(call.ret.value.custo_anual, Rat(14000, 1))
CeilDiv(x, y) == (x + y - 1) \div y

\* the annual cost the sweep owes at diameter d (mm) under the parameters k
CustoNoDiametro(k, d) ==
    LET perdas == calcular_perda_carga(k.vazao, Rat(d, 1), k.comp_tub, k.rug_tub,
                      k.k_total_acessorios, k.fluido_selecionado)
    IN calcular_analise_energetica(k.vazao,
           RAdd(k.h_geometrica,
                RAdd(perdas.value.principal, perdas.value.localizada)),
           k.rend_bomba, k.rend_motor, k.horas_por_dia, k.tarifa_energia,
           k.fluido_selecionado).value.custo_anual

FaixaValida(a) == a.diam_min < a.diam_max /\ a.passo > 0

\* C3: a sweep with diameterMin < diameterMax, step > 0 and a fluid of the table
\* returns a non-empty sequence whose i-th diameter is diameterMin + i*step
\* (counting from 0), strictly ascending, whose last diameter D satisfies
\* diameterMax <= D < diameterMax + step, with exactly one sample >= diameterMax
\* and ceil((max-min)/step) + 1 samples, each annualCost being the energy
\* calculation at totalHead = geometricHead + majorLoss + minorLoss of that diameter.
C3_Varredura ==
    (/\ Returned("grafico_diametro_custo")
     /\ FaixaValida(call.args)
     /\ Conhecido(call.args.kwargs.fluido_selecionado))
    => LET a == call.args
           linhas == call.ret.value
           n == Len(linhas)
       IN /\ call.ret.raised = "none"
          /\ n >= 1
          /\ \A i \in 1..n : linhas[i].diametro = a.diam_min + (i - 1) * a.passo
          /\ \A i \in 1..(n - 1) : linhas[i].diametro < linhas[i + 1].diametro
          /\ a.diam_max <= linhas[n].diametro
          /\ linhas[n].diametro < a.diam_max + a.passo
          /\ Cardinality({i \in 1..n : linhas[i].diametro >= a.diam_max}) = 1
          /\ n = CeilDiv(a.diam_max - a.diam_min, a.passo) + 1
          /\ \A i \in 1..n :
                REq(linhas[i].custo, CustoNoDiametro(a.kwargs, linhas[i].diametro))

\* a sweep whose last sample overshoots diam_max has returned its rows
C3_Witness ==
    /\ Returned("grafico_diametro_custo")
    /\ FaixaValida(call.args)
    /\ call.ret.raised = "none"
    /\ Len(call.ret.value) >= 3
    /\ call.ret.value[Len(call.ret.value)].diametro > call.args.diam_max
    /\ RGt(call.ret.value[1].custo, Zero)

FaixaInvalidaW(w) == w.diam_min_graf >= w.diam_max_graf \/ w.passo_graf <= 0

\* C4: a sweep called with diameterMin >= diameterMax or step <= 0 returns the
\* empty sequence, raises nothing and runs no calculation; the script in pipe
\* mode then shows the warning instead of the chart and completes: suggestions
\* and report are produced, and the report has no chart page.
C4_FaixaInvalida ==
    /\ (Returned("grafico_diametro_custo") /\ ~FaixaValida(call.args))
        => /\ call.ret.raised = "none"
           /\ call.ret.value = <<>>
           /\ call.ret.calcs = 0
    /\ (/\ pagina.tipo # "none"
        /\ pagina.widgets.tipo_calculo_h = Tubulacao
        /\ FaixaInvalidaW(pagina.widgets))
        => /\ pagina.tipo = "ok"
           /\ pagina.warning
           /\ ~pagina.bar_chart
           /\ Len(pagina.sugestoes) >= 1
           /\ pagina.pdf.sugestoes = pagina.sugestoes
           /\ Len(pagina.pdf.paginas) = 1
           /\ \A i \in 1..Len(pagina.pdf.paginas) :
                 pagina.pdf.paginas[i].orientacao # "L"

\* the script has run in pipe mode with diam_min = diam_max and shown the warning
C4_Witness ==
    /\ pagina.tipo = "ok"
    /\ pagina.widgets.tipo_calculo_h = Tubulacao
    /\ pagina.widgets.diam_min_graf = pagina.widgets.diam_max_graf
    /\ pagina.warning

ResultadoNulo == [principal |-> Zero, localizada |-> Zero, velocidade |-> Zero]

\* C5: a head-loss call with diameter <= 0 returns majorLoss = 0, minorLoss = 0,
\* velocity = 0 and raises nothing, whatever the other inputs, the fluid name
\* included, known or not.
C5_DiametroNaoPositivo ==
    (Returned("perda_carga") /\ RLe(call.args.diametro_mm, Zero))
    => call.ret = Return(ResultadoNulo)

\* a head-loss call with a negative diameter, a positive flow and a fluid that
\* is not in the table has returned
C5_Witness ==
    /\ Returned("perda_carga")
    /\ RLt(call.args.diametro_mm, Zero)
    /\ RGt(call.args.vazao_m3h, Zero)
    /\ ~Conhecido(call.args.fluido_selecionado)
    /\ call.ret.raised = "none"

\* C6: an energy call with pumpEfficiency <= 0 or motorEfficiency <= 0 and a
\* known fluid raises nothing and returns electricalPowerKW = 0,
\* monthlyConsumptionKWh = 0 and annualCost = 0.
C6_EficienciaNaoPositiva ==
    (/\ Returned("analise_energetica")
     /\ \/ RLe(call.args.eficiencia_bomba, Zero)
        \/ RLe(call.args.eficiencia_motor, Zero)
     /\ Conhecido(call.args.fluido_selecionado))
    => /\ call.ret.raised = "none"
       /\ REq(call.ret.value.potencia_eletrica_kW, Zero)
       /\ REq(call.ret.value.consumo_mensal_kWh, Zero)
       /\ REq(call.ret.value.custo_anual, Zero)

\* an energy call with a non-positive pump efficiency, a positive motor
\* efficiency and a positive hydraulic power has returned
C6_Witness ==
    /\ Returned("analise_energetica")
    /\ RLe(call.args.eficiencia_bomba, Zero)
    /\ RGt(call.args.eficiencia_motor, Zero)
    /\ RGt(call.args.vazao_m3h, Zero)
    /\ RGt(call.args.h_man, Zero)
    /\ Conhecido(call.args.fluido_selecionado)
    /\ call.ret.raised = "none"

SugestoesEsperadas(a) ==
    (IF RLt(a.eficiencia_bomba, Rat(60, 100)) THEN <<SugestaoBomba>> ELSE <<>>)
    \o (IF RLt(a.eficiencia_motor, Rat(85, 100)) THEN <<SugestaoMotor>> ELSE <<>>)
    \o (IF RGt(a.custo_anual, Rat(5000, 1)) THEN <<SugestaoInversor>> ELSE <<>>)
    \o <<SugestaoManutencao>>

\* C7: gerar_sugestoes returns, in this order, the pump warning iff
\* pumpEfficiency < 0.60, the motor warning iff motorEfficiency < 0.85, the
\* inverter suggestion iff annualCost > 5000 (all strict), then always the
\* maintenance reminder as the last element: between 1 and 4 entries.
C7_Sugestoes ==
    Returned("sugestoes")
    => /\ call.ret.raised = "none"
       /\ call.ret.value = SugestoesEsperadas(call.args)
       /\ Len(call.ret.value) \in 1..4
       /\ call.ret.value[Len(call.ret.value)] = SugestaoManutencao

\* the thresholds themselves (0.60, 0.85, 5000) have produced the reminder alone
C7_Witness ==
    /\ Returned("sugestoes")
    /\ REq(call.args.eficiencia_bomba, Rat(6, 10))
    /\ REq(call.args.eficiencia_motor, Rat(85, 100))
    /\ REq(call.args.custo_anual, Rat(5000, 1))
    /\ call.ret.value = <<SugestaoManutencao>>

\* C8: with a fluid name outside the table, calcular_perda_carga with
\* diameter > 0 and calcular_analise_energetica raise a lookup error and return
\* nothing, and a sweep over a valid range raises that error at its first
\* sample instead of returning an empty or partial series.
C8_FluidoDesconhecido ==
    /\ (/\ Returned("perda_carga")
        /\ RGt(call.args.diametro_mm, Zero)
        /\ ~Conhecido(call.args.fluido_selecionado))
        => call.ret = Raise("KeyError")
    /\ (/\ Returned("analise_energetica")
        /\ ~Conhecido(call.args.fluido_selecionado))
        => call.ret = Raise("KeyError")
    /\ (/\ Returned("grafico_diametro_custo")
        /\ FaixaValida(call.args)
        /\ ~Conhecido(call.args.kwargs.fluido_selecionado))
        => /\ call.ret.raised = "KeyError"
           /\ call.ret.value = <<>>
           /\ call.ret.calcs = IF call.args.diam_min > 0 THEN 1 ELSE 2

\* a sweep over a valid range with a fluid that is not in the table has raised
C8_Witness ==
    /\ Returned("grafico_diametro_custo")
    /\ FaixaValida(call.args)
    /\ ~Conhecido(call.args.kwargs.fluido_selecionado)
    /\ call.ret.raised = "KeyError"

\* the head-loss call of the state repeated at diameter d
PerdaEm(a, d) ==
    calcular_perda_carga(a.vazao_m3h, d, a.comprimento_m, a.rugosidade_mm,
                         a.k_total, a.fluido_selecionado)

MaiorVelocidadeEPerda(r1, r2) ==
    /\ r2.raised = "none"
    /\ RGt(r1.value.velocidade, r2.value.velocidade)
    /\ RGt(r1.value.principal, r2.value.principal)

CustoNaoCresce(linhas) ==
    \A i \in 1..(Len(linhas) - 1) : RLe(linhas[i + 1].custo, linhas[i].custo)

\* C9 as stated: for any fixed non-diameter parameters and positive diameters
\* d1 < d2, velocity(d1) > velocity(d2) and majorLoss(d1) > majorLoss(d2), and
\* in a sweep the annualCost of consecutive points does not increase.
C9_Original ==
    /\ (/\ Returned("perda_carga")
        /\ RGt(call.args.diametro_mm, Zero)
        /\ call.ret.raised = "none")
        => \A d2 \in Entradas.diam :
              RGt(d2, call.args.diametro_mm)
              => MaiorVelocidadeEPerda(call.ret, PerdaEm(call.args, d2))
    /\ (Returned("grafico_diametro_custo") /\ call.ret.raised = "none")
        => CustoNaoCresce(call.ret.value)

\* C9, amended: with flow rate > 0, pipe length > 0, 0 <= roughness <= d1 and a
\* fluid of the table, positive diameters d1 < d2 give velocity(d1) >
\* velocity(d2) and majorLoss(d1) > majorLoss(d2), across the Re = 4000 switch
\* too; and in a sweep that starts at a positive diameter >= the roughness,
\* with no negative parameter, the annualCost of consecutive points does not
\* increase.
C9_Monotonia ==
    /\ (/\ Returned("perda_carga")
        /\ RGt(call.args.diametro_mm, Zero)
        /\ RGt(call.args.vazao_m3h, Zero)
        /\ RGt(call.args.comprimento_m, Zero)
        /\ RGe(call.args.rugosidade_mm, Zero)
        /\ RLe(call.args.rugosidade_mm, call.args.diametro_mm)
        /\ Conhecido(call.args.fluido_selecionado))
        => /\ call.ret.raised = "none"
           /\ \A d2 \in Entradas.diam :
                 RGt(d2, call.args.diametro_mm)
                 => MaiorVelocidadeEPerda(call.ret, PerdaEm(call.args, d2))
    /\ (/\ Returned("grafico_diametro_custo")
        /\ call.ret.raised = "none"
        /\ call.args.diam_min > 0
        /\ RLe(call.args.kwargs.rug_tub, Rat(call.args.diam_min, 1))
        /\ \A x \in {call.args.kwargs.vazao, call.args.kwargs.h_geometrica,
                     call.args.kwargs.comp_tub, call.args.kwargs.rug_tub,
                     call.args.kwargs.k_total_acessorios,
                     call.args.kwargs.horas_por_dia,
                     call.args.kwargs.tarifa_energia} : RGe(x, Zero))
        => CustoNaoCresce(call.ret.value)

\* a head-loss call in the turbulent regime whose repetition at a larger
\* diameter of the inputs is laminar, with the smaller major loss
C9_Witness ==
    /\ Returned("perda_carga")
    /\ RGt(call.args.diametro_mm, Zero)
    /\ RGt(call.args.comprimento_m, Zero)
    /\ RLe(call.args.rugosidade_mm, call.args.diametro_mm)
    /\ Conhecido(call.args.fluido_selecionado)
    /\ RGt(Reynolds(call.args), Rat(4000, 1))
    /\ \E d2 \in Entradas.diam :
          /\ RGt(d2, call.args.diametro_mm)
          /\ RLe(Reynolds([call.args EXCEPT !.diametro_mm = d2]), Rat(4000, 1))
          /\ MaiorVelocidadeEPerda(call.ret, PerdaEm(call.args, d2))

\* C10: a call with the inputs of an earlier call returns what the earlier call
\* returned, whatever calls were made in between, and no call changes the
\* fluid table.
C10_Puro ==
    /\ FLUIDOS = TabelaFluidos
    /\ (/\ pc = "returned"
        /\ antes.op = call.op
        /\ antes.args = call.args)
        => call.ret = antes.ret

\* a call has returned whose inputs are those of a call kept earlier
C10_Witness ==
    /\ pc = "returned"
    /\ antes.op = "analise_energetica"
    /\ call.op = antes.op
    /\ call.args = antes.args
    /\ call.ret.raised = "none"
====
